---- MODULE Spec2Model ----
(***************************************************************************)
(* The example notebooks of idaes_examples (MatOpt and RIPE), each a       *)
(* sequence of cells run top to bottom.  One behaviour is one run of one   *)
(* notebook; the external libraries (MatOpt, RIPE, the MILP solver) are    *)
(* nondeterministic: a solve call returns a Design, returns None or        *)
(* raises, and a returned Design is any one that satisfies the rules the   *)
(* notebook appended to the model.                                         *)
(***************************************************************************)
EXTENDS Integers, Sequences, FiniteSets

VARIABLES
    nb,           \* the notebook that is run
    pc,           \* the cell the run is at
    Canv,         \* bimetallic: the number of sites of the second canvas
    D,            \* the design variable: <<>> for None, <<contents>> for a Design
    Zvals,        \* the values the solver left in m.Zic / m.IdealSitei
    files,        \* the names of the files written so far
    printed,      \* the fallback messages printed so far
    excs,         \* the exceptions the solve/fit calls raised so far
    calls,        \* the number of solve/fit calls made so far
    outcome,      \* how the final m.maximize call ended
    ite,          \* isothermal CSTR: the loop counter
    err,          \* isothermal CSTR: the error ripe.ems returned last
    new_res,      \* isothermal CSTR: the simulation of the new point
    flags,        \* isothermal CSTR: the violation flags printed last
    resultOut,    \* the contents written to result.pdb / result.cfg
    CatWeight,    \* surface, bifunctional: the weight of the activity, in tenths
    objective,    \* surface, bifunctional: the global descriptors of the solution
    returned,     \* the design as the final m.maximize call returned it
    ConfDir,      \* perovskite: the temporary directory ("none", "open", "removed")
    confFiles,    \* perovskite: the conformation files in the temporary directory
    ConfDesigns,  \* perovskite: the designs loadFromPDBs returned, <<>> before
    ConfContents, \* perovskite: the list Confs handed to MatOptModel, <<>> before
    confLog,      \* perovskite: the steps of the loading cell run so far
    exceeds,      \* isothermal CSTR: the array the while condition passed to
                  \* any() when it admitted the last iteration
    periodicOut   \* nanowire: the (site, shift, content) written to periodic_result.pdb

vars == <<nb, pc, Canv, D, Zvals, files, printed, excs, calls, outcome,
          ite, err, new_res, flags, resultOut, periodicOut, CatWeight,
          objective, exceeds, returned, ConfDir, confFiles, ConfDesigns,
          ConfContents, confLog>>

confVars == <<ConfDir, confFiles, ConfDesigns, ConfContents, confLog>>

(* ------------------------------ bounds -------------------------------- *)
\* sites of the canvas of the notebooks whose geometry no rule depends on
NumGenericSites == 2
\* conformations loaded by the perovskite notebook
NumConfs == 1
\* loop iterations of the isothermal CSTR notebook that are told apart
MaxIte == 2
\* species of the isothermal CSTR notebook
NumSpecies == 2
\* largest error component ripe.ems returns
MaxErr == 1
\* width (sites per layer) and height (layers) of the surface canvas
SurfWidth == 2
SurfLayers == 4
\* squared radius of the nanowire canvas, in squared lattice units
NanoRadiusSq == 2
\* largest value of a global descriptor (Stability, Activity) told apart
MaxDesc == 1

(* ----------------------------- notebooks ------------------------------ *)
MatOptNotebooks == {"monometallic", "surface", "bifunctional", "bimetallic",
                    "nanowire", "perovskite"}
RipeNotebooks == {"cstr", "clc"}
Notebooks == MatOptNotebooks \cup RipeNotebooks

NoneC == "None"
FallbackMsg == "MaOpt can not find usable solver (CPLEX or NEOS-CPLEX)"

\* what a library call can raise: a missing solver, any other error derived
\* from Exception, or a BaseException that is no Exception (KeyboardInterrupt)
ExcKinds == {"NoSolver", "Error", "Interrupt"}

\* "except:" catches everything, "except Exception" what derives from
\* Exception, and a call outside any try statement nothing
Catches(guard, kind) ==
    CASE guard = "bare" -> TRUE
      [] guard = "Exception" -> kind # "Interrupt"
      [] OTHER -> FALSE

\* mutant: the final solve cell guarded by "except Exception"
FinalSolveGuard_narrow == "Exception"
FinalSolveGuard == "bare"
FirstStageGuard == "Exception"
RipeGuard == "none"

(* ------------------------- designs and rules -------------------------- *)
\* lengths are in units of DBL_TOL, the tolerance of the site comparisons
DBL_TOL == 1
FCC111LayerSpacing == 10
IAD == 10

\* m.Yi: presence of any building block at site i of the contents d
Yi(d, i) == IF d[i] # NoneC THEN 1 ELSE 0
\* m.Yik: presence of a building block of type k at site i
Yik(d, i, k) == IF d[i] = k THEN 1 ELSE 0

\* FixedTo(v, sites=S) appended to m.Yi
FixedToYi(d, v, S) == \A i \in S : Yi(d, i) = v
\* FixedTo(v, sites=S, site_types=K) appended to m.Yik
FixedToYik(d, v, S, K) == \A i \in S : \A k \in K : Yik(d, i, k) = v
\* ImpliesNeighbors(concs=(m.Yi, GreaterThan(1)), sites=S, neighborhoods=N):
\* an occupied site of S has every site of its neighbourhood occupied
ImpliesNeighborsYi(d, S, N) ==
    \A i \in S : Yi(d, i) = 1 => \A j \in N[i] : Yi(d, j) >= 1

(* the canvas of the notebooks whose rules do not depend on the geometry *)
GenericSites == 1..NumGenericSites

\* monometallic: Atoms = [Atom("Pt")], no placement rule
MonoDesigns == [GenericSites -> {"Pt", NoneC}]

\* bifunctional: the first site stands for the fixed Pt layers (LocsToFixPt),
\* the others for the top layer (LocsToExcludePt)
LocsToFixPt == {1}
LocsToExcludePt == GenericSites \ LocsToFixPt
BifunctionalDesigns ==
    {d \in [GenericSites -> {"Ni", "Pt", NoneC}] :
        /\ FixedToYik(d, 1, LocsToFixPt, {"Pt"})
        /\ FixedToYik(d, 0, LocsToExcludePt, {"Pt"})}

\* bimetallic, first stage: Atoms = [Atom("Cu")] on the one-shell canvas
FirstStageDesigns == [GenericSites -> {"Cu", NoneC}]
\* bimetallic: the second canvas holds the occupied sites of the first design
SecondCanvas(d) ==
    IF d = <<>> THEN 0 ELSE Cardinality({i \in DOMAIN d[1] : d[1][i] # NoneC})
\* bimetallic, second stage: m.Yi.rules.append(FixedTo(1.0))
BimetallicDesigns(n) ==
    {d \in [1..n -> {"Cu", "Ag", NoneC}] : FixedToYi(d, 1, 1..n)}

(* surface design: SurfLayers layers of SurfWidth sites, periodic in-plane *)
SurfSites == 1..(SurfWidth * SurfLayers)
SurfLayerOf(i) == (i - 1) \div SurfWidth
SurfXOf(i) == (i - 1) % SurfWidth
\* 0 stands for None, the missing neighbour of a site at the canvas border
SurfSite(x, l) ==
    IF l < 0 \/ l >= SurfLayers THEN 0 ELSE l * SurfWidth + (x % SurfWidth) + 1
\* Canv.Points[i][2]
SurfZ(i) == SurfLayerOf(i) * FCC111LayerSpacing
\* Canv.NeighborhoodIndexes[i]
SurfNeighborhoodIndexes(i) ==
    LET x == SurfXOf(i)
        l == SurfLayerOf(i)
    IN  {SurfSite(x - 1, l), SurfSite(x + 1, l),
         SurfSite(x, l - 1), SurfSite(x + 1, l - 1),
         SurfSite(x, l + 1), SurfSite(x - 1, l + 1)}

CanvTwoBotLayers == {i \in SurfSites : 2 * SurfZ(i) < 3 * FCC111LayerSpacing}
CanvMinusTwoBotLayers == SurfSites \ CanvTwoBotLayers
TopLayerSites ==
    {i \in SurfSites : 2 * SurfZ(i) > (2 * SurfLayers - 3) * FCC111LayerSpacing}
OneSiteInTopLayer == {CHOOSE i \in TopLayerSites : \A j \in TopLayerSites : i <= j}

\* mutant: the comparison of the heights turned round
NeighborsBelow_above(i) ==
    {j \in SurfNeighborhoodIndexes(i) : j # 0 /\ SurfZ(j) > SurfZ(i) - DBL_TOL}
NeighborsBelow(i) ==
    {j \in SurfNeighborhoodIndexes(i) : j # 0 /\ SurfZ(j) < SurfZ(i) - DBL_TOL}

SurfaceRules(d) ==
    /\ FixedToYi(d, 1, OneSiteInTopLayer)
    /\ FixedToYi(d, 1, CanvTwoBotLayers)
    /\ ImpliesNeighborsYi(d, CanvMinusTwoBotLayers,
                          [i \in CanvMinusTwoBotLayers |-> NeighborsBelow(i)])
SurfaceDesigns == {d \in [SurfSites -> {"Pt", NoneC}] : SurfaceRules(d)}

(* nanowire: a cross-section of the wire, sites on a square grid of step IAD *)
NanoSpan == NanoRadiusSq
NanoA(i) == ((i - 1) \div (2 * NanoSpan + 1)) - NanoSpan
NanoB(i) == ((i - 1) % (2 * NanoSpan + 1)) - NanoSpan
\* the index of the grid point (a, b); 0 stands for None
NanoIndex(a, b) == (a + NanoSpan) * (2 * NanoSpan + 1) + (b + NanoSpan) + 1
\* p[0] ** 2 + p[1] ** 2 of canvas.Points[i]
RadSq(i) == (NanoA(i) * IAD) * (NanoA(i) * IAD) + (NanoB(i) * IAD) * (NanoB(i) * IAD)
\* radius ** 2 of the Cylinder
radiusSq == NanoRadiusSq * IAD * IAD
NanoSites ==
    {i \in 1..((2 * NanoSpan + 1) * (2 * NanoSpan + 1)) : RadSq(i) <= radiusSq}
\* canvas.NeighborhoodIndexes[i]
NanoNeighborhoodIndexes(i) ==
    LET nbr(a, b) == IF NanoIndex(a, b) \in NanoSites /\ a \in -NanoSpan..NanoSpan
                        /\ b \in -NanoSpan..NanoSpan
                     THEN NanoIndex(a, b) ELSE 0
    IN  {nbr(NanoA(i) - 1, NanoB(i)), nbr(NanoA(i) + 1, NanoB(i)),
         nbr(NanoA(i), NanoB(i) - 1), nbr(NanoA(i), NanoB(i) + 1)}
\* lattice.isASite(p), lattice.isBSite(p): the two sublattices of the wurtzite
isASiteNano(i) == (NanoA(i) + NanoB(i)) % 2 = 0
isBSiteNano(i) == (NanoA(i) + NanoB(i)) % 2 = 1

\* coreRatio = 0.2 = 1 / coreRatioInv
coreRatioInv == 5
CoreLayers == {i \in NanoSites : RadSq(i) * coreRatioInv * coreRatioInv < radiusSq}
CanvasMinusCoreLayers == NanoSites \ CoreLayers
NeighborsInside(i) ==
    {j \in NanoNeighborhoodIndexes(i) : j # 0 /\ RadSq(j) < RadSq(i) - DBL_TOL}

NanowireRules(d) ==
    /\ FixedToYi(d, 1, CoreLayers)
    /\ ImpliesNeighborsYi(d, CanvasMinusCoreLayers,
                          [i \in CanvasMinusCoreLayers |-> NeighborsInside(i)])
\* m = MatOptModel(canvas, [Atom("")])
NanowireDesigns == {d \in [NanoSites -> {"", NoneC}] : NanowireRules(d)}

(* perovskite: a canvas with one A-site, two B-sites and two O-sites *)
PerovTypes == <<"A", "B", "B", "O", "O">>
Sites == DOMAIN PerovTypes
ASites == {i \in Sites : PerovTypes[i] = "A"}
BSites == {i \in Sites : PerovTypes[i] = "B"}
OSites == {i \in Sites : PerovTypes[i] = "O"}
Atoms == {"Ba", "Fe", "In", "O"}
Confs == 1..NumConfs

\* mutant: the rule that fills every B-site is left out
PerovskiteRules_noBFill(d) ==
    /\ FixedToYik(d, 1, ASites, {"Ba"})
    /\ FixedToYik(d, 1, OSites, {"O"})
    /\ FixedToYik(d, 0, BSites, {"Ba", "O"})
PerovskiteRules(d) ==
    /\ FixedToYik(d, 1, ASites, {"Ba"})
    /\ FixedToYik(d, 1, OSites, {"O"})
    /\ FixedToYik(d, 0, BSites, {"Ba", "O"})
    /\ FixedToYi(d, 1, BSites)
PerovskiteDesigns == {d \in [Sites -> Atoms \cup {NoneC}] : PerovskiteRules(d)}

(* what the solver leaves in the indicator descriptors a notebook reads *)
\* m.Zic.keys() of the perovskite model, m.IdealSitei.keys() of the surface
ZicKeys == Sites \X Confs
IdealSiteiKeys == CanvMinusTwoBotLayers
IndicatorValues(n) ==
    CASE n = "perovskite" -> [ZicKeys -> {0, 1}]
      [] n = "surface" -> [IdealSiteiKeys -> {0, 1}]
      [] OTHER -> {<<>>}

\* the designs m.maximize can return in notebook n (canvas of c sites)
FeasibleDesigns(n, c) ==
    CASE n = "monometallic" -> MonoDesigns
      [] n = "surface" -> SurfaceDesigns
      [] n = "bifunctional" -> BifunctionalDesigns
      [] n = "bimetallic" -> BimetallicDesigns(c)
      [] n = "nanowire" -> NanowireDesigns
      [] n = "perovskite" -> PerovskiteDesigns

(* ----------------------------- objective ------------------------------ *)
\* CatWeight = 1.0, in tenths
CatWeightOne == 10
\* the weights the parameter cell can be run with
CatWeightVals == {0, CatWeightOne \div 2, CatWeightOne}
\* the notebooks that maximize m.ActAndStab
WeightedNotebooks == {"surface", "bifunctional"}
DescVals == 0..MaxDesc

\* LinearExpr(descs=[...], coefs=[...]): the sum of coefs[n] * descs[n]
LinearExpr(descs, coefs) == coefs[1] * descs[1] + coefs[2] * descs[2]
\* mutant: the two coefficients in the other order
ActAndStabCoefs_swapped(w) == <<w, -(CatWeightOne - w)>>
\* coefs=[-(1 - CatWeight), CatWeight], in tenths
ActAndStabCoefs(w) == <<-(CatWeightOne - w), w>>
\* m.ActAndStab: LinearExpr(descs=[m.Stability, m.Activity], coefs=[...])
ActAndStab(w, stability, activity) ==
    LinearExpr(<<stability, activity>>, ActAndStabCoefs(w))

\* SumSites(desc): the sum of the indicator values z over the sites of S
SumSites(z, S) == Cardinality({i \in S : z[i] = 1})
\* m.Activity, in units of 1 / TileSizeSquared (surface: the sum of
\* m.IdealSitei) or 1 / CatNorm (bifunctional: the sum of m.SiteCombinations)
ActivityVals(n, z) ==
    IF n = "surface" THEN {SumSites(z, DOMAIN z)} ELSE DescVals
\* the global descriptors the solver leaves in the model with weight w
Objectives(n, w, z) ==
    IF n \in WeightedNotebooks
    THEN {[Stability |-> st, Activity |-> a, ActAndStab |-> ActAndStab(w, st, a)] :
             st \in DescVals, a \in ActivityVals(n, z)}
    ELSE {<<>>}

(* --------------------------- post-processing -------------------------- *)
\* surface: the sites with m.IdealSitei.values[i] > 0.5 are set to Atom("S")
LabelIdealSites(d, z) ==
    [i \in DOMAIN d |-> IF i \in IdealSiteiKeys /\ 2 * z[i] > 1 THEN "S" ELSE d[i]]

\* perovskite: for i, c in m.Zic.keys(): if m.Zic.values[i, c] > 0.5:
\* D.setContent(i, Atom("S"))
LabelConformations(d, z) ==
    [i \in DOMAIN d |->
        IF \E k \in ZicKeys : k[1] = i /\ 2 * z[k] > 1 THEN "S" ELSE d[i]]

\* mutant: the labelling loop without its elif branch
LabelIdentities_onlyA(d) ==
    [i \in DOMAIN d |->
        IF d[i] # NoneC
        THEN IF isASiteNano(i) THEN "In" ELSE d[i]
        ELSE d[i]]
\* nanowire: the occupied sites are labelled In (A-sites) and As (B-sites)
LabelIdentities(d) ==
    [i \in DOMAIN d |->
        IF d[i] # NoneC
        THEN IF isASiteNano(i) THEN "In" ELSE IF isBSiteNano(i) THEN "As" ELSE d[i]
        ELSE d[i]]

\* range(4) of the two replication loops
ReplicaCount == 4
\* the sites of d shifted by k * shape.Vh for the k of K, each with its content
Shifted(d, K) == {<<i, k, d[i]>> : i \in DOMAIN d, k \in K}
\* periodicDesign = deepcopy(optimalDesign), then
\* for k in range(4): ... periodicDesign.add(p + (k + 1) * shape.Vh, ...)
\* for k in range(4): ... periodicDesign.add(p - (k + 1) * shape.Vh, ...)
ReplicateNanowire(d) ==
    Shifted(d, {0})
        \cup Shifted(d, {k + 1 : k \in 0..(ReplicaCount - 1)})
        \cup Shifted(d, {-(k + 1) : k \in 0..(ReplicaCount - 1)})

(* -------------------------- isothermal CSTR --------------------------- *)
\* noise = 0.1, in tenths
noiseTenths == 1
Species == 1..NumSpecies
ErrVals == 0..MaxErr
\* the concentrations isotsim.sim returns for the new point
ResVals == {4, 8, 10}
\* mutant: the while condition written with all() in place of any()
LoopCond_all(e, r) == \A j \in Species : 10 * e[j] > 2 * noiseTenths * r[j]
\* any(err > [2 * noise * s for s in new_res])
LoopCond(e, r) == \E j \in Species : 10 * e[j] > 2 * noiseTenths * r[j]
\* err > [2 * noise * s for s in new_res]
Exceeds(e, r) == [j \in Species |-> 10 * e[j] > 2 * noiseTenths * r[j]]
\* err > [noise * s for s in new_res]
Violations(e, r) == [j \in Species |-> 10 * e[j] > noiseTenths * r[j]]

(* ------------------------------- cells -------------------------------- *)
\* mutant: the debug file of the build cell written under the result's name
DebugFiles_resultName(n) == IF n = "monometallic" THEN {"result.pdb"} ELSE {}
\* the files a notebook writes while building, to debug the canvas
DebugFiles(n) ==
    CASE n = "monometallic" -> {"canvas_sites.pdb"}
      [] n = "surface" -> {"undefected.pdb", "undefected.cfg"}
      [] n = "bifunctional" -> {"canvas.pdb", "canvas.cfg"}
      [] n = "nanowire" -> {"canvas.pdb"}
      [] OTHER -> {}

\* the files a notebook's post-processing cell writes
ResultFiles(n) ==
    CASE n = "monometallic" -> {"result.pdb"}
      [] n = "surface" -> {"result.pdb", "periodic_result.cfg"}
      [] n = "bifunctional" -> {"result.cfg", "periodic_result.cfg"}
      [] n = "bimetallic" -> {"result.pdb"}
      [] n = "nanowire" -> {"result.pdb", "periodic_result.pdb"}
      [] n = "perovskite" -> {"result.cfg"}
      [] OTHER -> {}

\* D = Design(Canv, Atom("Pt")): the variable D holds the undefected design
\* before the solve cell in the notebooks that plot it
DebugDesign(n) ==
    CASE n \in {"monometallic", "bifunctional"} -> <<[i \in GenericSites |-> "Pt"]>>
      [] n = "surface" -> <<[i \in SurfSites |-> "Pt"]>>
      [] OTHER -> <<>>

\* the cell that follows the build cells
FirstCall(n) ==
    CASE n = "bimetallic" -> "solve1"
      [] n = "perovskite" -> "tmpdir"
      [] n = "cstr" -> "fit0"
      [] n = "clc" -> "fit"
      [] OTHER -> "solve"

Raised(call, kind, guard) ==
    [call |-> call, kind |-> kind, caught |-> Catches(guard, kind)]

\* mutant: the solve cell without its "D = None"
DBeforeTry_kept(d) == d
\* "D = None" at the top of the solve cell
DBeforeTry(d) == <<>>
\* mutant: a post-processing cell that never finds a design
DesignFound_never(d) == FALSE
\* "if D is not None:" of the post-processing cell
DesignFound(d) == d # <<>>

Init ==
    /\ nb \in Notebooks
    /\ pc = "start"
    /\ Canv = 0
    /\ D = <<>>
    /\ Zvals = <<>>
    /\ files = {}
    /\ printed = {}
    /\ excs = <<>>
    /\ calls = 0
    /\ outcome = "pending"
    /\ ite = 0
    /\ err = [j \in Species |-> 0]
    /\ new_res = [j \in Species |-> 0]
    /\ flags = [j \in Species |-> FALSE]
    /\ resultOut = <<>>
    /\ periodicOut = {}
    /\ CatWeight = CatWeightOne
    /\ objective = <<>>
    /\ exceeds = [j \in Species |-> FALSE]
    /\ returned = <<>>
    /\ ConfDir = "none"
    /\ confFiles = {}
    /\ ConfDesigns = <<>>
    /\ ConfContents = <<>>
    /\ confLog = <<>>

\* the import and build cells, up to the first solve/fit call
Build ==
    /\ pc = "start"
    /\ files' = files \cup DebugFiles(nb)
    /\ D' = DebugDesign(nb)
    /\ pc' = FirstCall(nb)
    /\ CatWeight' \in IF nb \in WeightedNotebooks THEN CatWeightVals ELSE {CatWeight}
    /\ UNCHANGED <<nb, Canv, Zvals, printed, excs, calls, outcome, ite, err,
                   new_res, flags, resultOut, periodicOut, objective, exceeds,
                   returned,
                   confVars>>

(* perovskite: the cell that loads the conformations
     with TemporaryDirectory() as ConfDir:
         ZipFile("./confs.zip").extractall(ConfDir)
         ConfDesigns = loadFromPDBs([...], folder=ConfDir + "/confs/")
     Confs = [Conf.Contents for Conf in ConfDesigns]                      *)
ConfSteps_loadOutside == <<"tmpdir", "extract", "exit", "load", "confs">>
ConfSteps == <<"tmpdir", "extract", "load", "exit", "confs">>
\* the statement that follows statement p of the cell
StepAfter(steps, p) ==
    LET n == CHOOSE k \in DOMAIN steps : steps[k] = p
    IN  IF n = Len(steps) THEN "solve" ELSE steps[n + 1]
\* mutant: loadFromPDBs written after the with block
NextConfStep_loadOutside(p) == StepAfter(ConfSteps_loadOutside, p)
NextConfStep(p) == StepAfter(ConfSteps, p)

\* the contents of the design parsed from the file of conformation c
PDBContents(c) == <<"conf", c>>
\* TemporaryDirectory.__exit__: the directory is removed when the block is
\* left, on a normal exit and on an exception alike
Cleanup(dir) == IF dir = "open" THEN "removed" ELSE dir
LogStep(op, ok) == Append(confLog, [op |-> op, dir |-> ConfDir, ok |-> ok])

\* with TemporaryDirectory() as ConfDir:
EnterTempDir ==
    /\ pc = "tmpdir"
    /\ ConfDir' = "open"
    /\ confLog' = LogStep("enter", TRUE)
    /\ pc' = NextConfStep(pc)
    /\ UNCHANGED <<nb, Canv, D, Zvals, files, printed, excs, calls, outcome,
                   ite, err, new_res, flags, resultOut, periodicOut, CatWeight,
                   objective, exceeds, returned, confFiles, ConfDesigns,
                   ConfContents>>

\* ZipFile("./confs.zip").extractall(ConfDir): the files are extracted, or
\* the call raises and the exception leaves the block and the notebook
Extract ==
    /\ pc = "extract"
    /\ \/ /\ ConfDir = "open"
          /\ confFiles' = Confs
          /\ confLog' = LogStep("extract", TRUE)
          /\ ConfDir' = ConfDir
          /\ pc' = NextConfStep(pc)
       \/ /\ confFiles' = {}
          /\ confLog' = LogStep("extract", FALSE)
          /\ ConfDir' = Cleanup(ConfDir)
          /\ pc' = "aborted"
    /\ UNCHANGED <<nb, Canv, D, Zvals, files, printed, excs, calls, outcome,
                   ite, err, new_res, flags, resultOut, periodicOut, CatWeight,
                   objective, exceeds, returned, ConfDesigns, ConfContents>>

\* ConfDesigns = loadFromPDBs([...], folder=ConfDir + "/confs/"): every file
\* is read and parsed, or the call raises (a file is missing, or cannot be
\* parsed) and the exception leaves the block and the notebook
LoadFromPDBs ==
    /\ pc = "load"
    /\ \/ /\ Confs \subseteq confFiles
          /\ ConfDesigns' = [c \in Confs |-> PDBContents(c)]
          /\ confLog' = LogStep("load", TRUE)
          /\ UNCHANGED <<ConfDir, confFiles>>
          /\ pc' = NextConfStep(pc)
       \/ /\ ConfDesigns' = ConfDesigns
          /\ confLog' = LogStep("load", FALSE)
          /\ ConfDir' = Cleanup(ConfDir)
          /\ confFiles' = {}
          /\ pc' = "aborted"
    /\ UNCHANGED <<nb, Canv, D, Zvals, files, printed, excs, calls, outcome,
                   ite, err, new_res, flags, resultOut, periodicOut, CatWeight,
                   objective, exceeds, returned, ConfContents>>

\* the end of the with block: the directory and the files in it are removed
ExitTempDir ==
    /\ pc = "exit"
    /\ ConfDir' = Cleanup(ConfDir)
    /\ confFiles' = {}
    /\ confLog' = LogStep("exit", TRUE)
    /\ pc' = NextConfStep(pc)
    /\ UNCHANGED <<nb, Canv, D, Zvals, files, printed, excs, calls, outcome,
                   ite, err, new_res, flags, resultOut, periodicOut, CatWeight,
                   objective, exceeds, returned, ConfDesigns, ConfContents>>

\* Confs = [Conf.Contents for Conf in ConfDesigns], then the cells that build
\* the model from it: m = MatOptModel(Canv, Atoms, Confs)
MakeConfs ==
    /\ pc = "confs"
    /\ ConfContents' = ConfDesigns
    /\ confLog' = LogStep("confs", TRUE)
    /\ pc' = NextConfStep(pc)
    /\ UNCHANGED <<nb, Canv, D, Zvals, files, printed, excs, calls, outcome,
                   ite, err, new_res, flags, resultOut, periodicOut, CatWeight,
                   objective, exceeds, returned, ConfDir, confFiles, ConfDesigns>>

\* bimetallic: try: D = m.maximize(m.Ecoh, tilim=100)
\*             except Exception as err: D = None
FirstStage ==
    /\ pc = "solve1"
    /\ calls' = calls + 1
    /\ \/ \E d \in FirstStageDesigns :
            /\ D' = <<d>>
            /\ pc' = "build2"
            /\ excs' = excs
       \/ /\ D' = <<>>
          /\ pc' = "build2"
          /\ excs' = excs
       \/ \E k \in ExcKinds :
            /\ excs' = Append(excs, Raised("maximize1", k, FirstStageGuard))
            /\ IF Catches(FirstStageGuard, k)
               THEN D' = <<>> /\ pc' = "build2"
               ELSE D' = D /\ pc' = "aborted"
    /\ UNCHANGED <<nb, Canv, Zvals, files, printed, outcome, ite, err, new_res,
                   flags, resultOut, periodicOut,
                   CatWeight, objective, exceeds, returned,
                   confVars>>

\* bimetallic: Canv = Canvas(); if D: ... Canv.addLocation(D.Canvas.Points[i])
BuildSecondStage ==
    /\ pc = "build2"
    /\ Canv' = SecondCanvas(D)
    /\ pc' = "solve"
    /\ UNCHANGED <<nb, D, Zvals, files, printed, excs, calls, outcome, ite, err,
                   new_res, flags, resultOut, periodicOut,
                   CatWeight, objective, exceeds, returned,
                   confVars>>

\* D = None; try: D = m.maximize(...); except: print(FallbackMsg)
Solve ==
    /\ pc = "solve"
    /\ calls' = calls + 1
    /\ \/ \E d \in FeasibleDesigns(nb, Canv) : \E z \in IndicatorValues(nb) :
            /\ D' = <<d>>
            /\ returned' = <<d>>
            /\ Zvals' = z
            /\ objective' \in Objectives(nb, CatWeight, z)
            /\ outcome' = "design"
            /\ pc' = "post"
            /\ UNCHANGED <<printed, excs>>
       \/ /\ D' = <<>>
          /\ Zvals' = <<>>
          /\ outcome' = "none"
          /\ pc' = "post"
          /\ UNCHANGED <<printed, excs, objective, returned>>
       \/ \E k \in ExcKinds :
            /\ excs' = Append(excs, Raised("maximize", k, FinalSolveGuard))
            /\ outcome' = "raised"
            /\ D' = DBeforeTry(D)
            /\ Zvals' = <<>>
            /\ UNCHANGED <<objective, returned>>
            /\ IF Catches(FinalSolveGuard, k)
               THEN printed' = printed \cup {FallbackMsg} /\ pc' = "post"
               ELSE printed' = printed /\ pc' = "aborted"
    /\ UNCHANGED <<nb, Canv, files, ite, err, new_res, flags, resultOut,
                   periodicOut, CatWeight, exceeds,
                   confVars>>

\* the contents the post-processing cell writes to the result file
Labelled(n, d, z) ==
    CASE n = "surface" -> LabelIdealSites(d, z)
      [] n = "perovskite" -> LabelConformations(d, z)
      [] n = "nanowire" -> LabelIdentities(d)
      [] OTHER -> d

\* if D is not None: label, write the result file(s), replicate
Post ==
    /\ pc = "post"
    /\ pc' = "done"
    /\ IF DesignFound(D)
       THEN /\ D' = <<Labelled(nb, D[1], Zvals)>>
            /\ resultOut' = D'
            /\ files' = files \cup ResultFiles(nb)
            /\ periodicOut' = IF nb = "nanowire"
                              THEN ReplicateNanowire(D'[1]) ELSE periodicOut
       ELSE UNCHANGED <<D, resultOut, files, periodicOut>>
    /\ UNCHANGED <<nb, Canv, Zvals, printed, excs, calls, outcome, ite, err,
                   new_res, flags,
                   CatWeight, objective, exceeds, returned,
                   confVars>>

\* a RIPE call outside any try statement: it returns, or raises and the
\* exception leaves the notebook
RipeCall(name, next) ==
    \/ /\ pc' = next
       /\ excs' = excs
    \/ \E k \in ExcKinds :
         /\ excs' = Append(excs, Raised(name, k, RipeGuard))
         /\ pc' = IF Catches(RipeGuard, k) THEN next ELSE "aborted"

\* CLC: results = ripe.ripemodel(xdata, stoichiometry=stoich, ...)
Fit ==
    /\ pc = "fit"
    /\ calls' = calls + 1
    /\ RipeCall("ripemodel", "done")
    /\ UNCHANGED <<nb, Canv, D, Zvals, files, printed, outcome, ite, err,
                   new_res, flags, resultOut, periodicOut,
                   CatWeight, objective, exceeds, returned,
                   confVars>>

\* isothermal CSTR: results = ripe.ripemodel(cdata, ..., expand_output=True)
FitInitial ==
    /\ pc = "fit0"
    /\ calls' = calls + 1
    /\ RipeCall("ripemodel", "ems0")
    /\ UNCHANGED <<nb, Canv, D, Zvals, files, printed, outcome, ite, err,
                   new_res, flags, resultOut, periodicOut,
                   CatWeight, objective, exceeds, returned,
                   confVars>>

\* isothermal CSTR: [new_points, err] = ripe.ems(...);
\*                  new_res = isotsim.sim(new_points)[0]; ite = 0
EmsInitial ==
    /\ pc = "ems0"
    /\ calls' = calls + 1
    /\ RipeCall("ems", "loop")
    /\ IF pc' = "loop"
       THEN /\ err' \in [Species -> ErrVals]
            /\ new_res' \in [Species -> ResVals]
       ELSE UNCHANGED <<err, new_res>>
    /\ UNCHANGED <<nb, Canv, D, Zvals, files, printed, outcome, ite, flags,
                   resultOut, periodicOut,
                   CatWeight, objective, exceeds, returned,
                   confVars>>

\* the counters of the loop are exact up to MaxIte iterations; the iterations
\* after that are run and no longer counted
CountIter(n, k) == IF ite < MaxIte THEN n + k ELSE n

\* mutant: the loop without its "ite += 1"
NextIte_stuck(i) == i
\* ite += 1
NextIte(i) == CountIter(i, 1)

\* one iteration of: while any(err > [2 * noise * s for s in new_res]):
\*   print(flags); ite += 1; ripe.ripemodel(...); ripe.ems(...); isotsim.sim(...)
LoopIter ==
    /\ pc = "loop"
    /\ LoopCond(err, new_res)
    /\ exceeds' = Exceeds(err, new_res)
    /\ flags' = Violations(err, new_res)
    /\ ite' = NextIte(ite)
    /\ \/ \E k \in ExcKinds :
            /\ excs' = Append(excs, Raised("ripemodel", k, RipeGuard))
            /\ pc' = "aborted"
            /\ calls' = CountIter(calls, 1)
            /\ UNCHANGED <<err, new_res>>
       \/ \E k \in ExcKinds :
            /\ excs' = Append(excs, Raised("ems", k, RipeGuard))
            /\ pc' = "aborted"
            /\ calls' = CountIter(calls, 2)
            /\ UNCHANGED <<err, new_res>>
       \/ /\ excs' = excs
          /\ pc' = "loop"
          /\ calls' = CountIter(calls, 2)
          /\ err' \in [Species -> ErrVals]
          /\ new_res' \in [Species -> ResVals]
    /\ UNCHANGED <<nb, Canv, D, Zvals, files, printed, outcome, resultOut,
                   periodicOut,
                   CatWeight, objective, returned,
                   confVars>>

\* the while condition is false: the loop is left
LoopExit ==
    /\ pc = "loop"
    /\ ~LoopCond(err, new_res)
    /\ pc' = "final"
    /\ UNCHANGED <<nb, Canv, D, Zvals, files, printed, excs, calls, outcome,
                   ite, err, new_res, flags, resultOut, periodicOut,
                   CatWeight, objective, exceeds, returned,
                   confVars>>

\* isothermal CSTR: results = ripe.ripemodel(..., expand_output=False)
FinalFit ==
    /\ pc = "final"
    /\ calls' = calls + 1
    /\ RipeCall("ripemodel", "done")
    /\ UNCHANGED <<nb, Canv, D, Zvals, files, printed, outcome, ite, err,
                   new_res, flags, resultOut, periodicOut,
                   CatWeight, objective, exceeds, returned,
                   confVars>>

Next ==
    \/ Build
    \/ EnterTempDir
    \/ Extract
    \/ LoadFromPDBs
    \/ ExitTempDir
    \/ MakeConfs
    \/ FirstStage
    \/ BuildSecondStage
    \/ Solve
    \/ Post
    \/ Fit
    \/ FitInitial
    \/ EmsInitial
    \/ LoopIter
    \/ LoopExit
    \/ FinalFit

Spec == Init /\ [][Next]_vars

\* a notebook is run cell after cell: a cell that can run does run
FairSpec == Spec /\ WF_vars(Next)

(* ------------------------------ claims -------------------------------- *)
\* the names of all result files
ResultNames == UNION {ResultFiles(n) : n \in Notebooks}
MaximizeRaised == {n \in DOMAIN excs : excs[n].call = "maximize"}

\* C1, as stated: every exception a solve/fit call (m.maximize, ripe.ripemodel,
\* ripe.ems) raises is caught by an enclosing guard, and the fallback message
\* is printed.
C1_EveryRaiseCaughtAndReported ==
    excs # <<>> => pc # "aborted" /\ FallbackMsg \in printed

\* C1, amended: an exception of the final m.maximize call of a MatOpt notebook
\* is caught and the fallback message is printed (and it is printed for nothing
\* else); the bimetallic first-stage call catches what derives from Exception
\* and prints nothing; an exception of ripe.ripemodel or ripe.ems leaves the
\* notebook and nothing is printed.
C1_GuardedMaximizeOnly ==
    /\ \A n \in DOMAIN excs :
        /\ excs[n].call = "maximize" =>
              pc \in {"post", "done"} /\ FallbackMsg \in printed
        /\ excs[n].call = "maximize1" =>
              (pc = "aborted") = (excs[n].kind = "Interrupt")
        /\ excs[n].call \in {"ripemodel", "ems"} =>
              pc = "aborted" /\ printed = {}
    /\ FallbackMsg \in printed => MaximizeRaised # {}

\* C1, witness: a final m.maximize call raised, the message was printed and
\* the notebook ran to its end.
C1_Witness ==
    /\ MaximizeRaised # {}
    /\ FallbackMsg \in printed
    /\ pc = "done"

\* C2: in a MatOpt notebook the result files are written if and only if the
\* final m.maximize call returned a Design; when it raised or returned None
\* the design variable is None, no result file is written and the run does
\* not abort.
C2_ResultFilesIffDesign ==
    nb \in MatOptNotebooks =>
        /\ outcome \in {"none", "raised"} =>
              /\ D = <<>>
              /\ files \cap ResultNames = {}
              /\ pc \in {"post", "done"}
        /\ pc = "done" => ((outcome = "design") = (ResultFiles(nb) \subseteq files))
        /\ files \cap ResultNames # {} => outcome = "design"

\* C2, witness: the final call raised in a notebook whose variable D held a
\* design before the solve cell, and the notebook ran to its end.
C2_Witness ==
    /\ nb = "monometallic"
    /\ outcome = "raised"
    /\ pc = "done"

\* C3: a failure of a MatOpt solve call that is not a missing solver leaves
\* the notebook, and the fallback message is printed only when no usable
\* solver was found.
C3_OtherFailuresPropagate ==
    /\ \A n \in MaximizeRaised :
          excs[n].kind # "NoSolver" => pc = "aborted" /\ FallbackMsg \notin printed
    /\ FallbackMsg \in printed =>
          \E n \in MaximizeRaised : excs[n].kind = "NoSolver"

\* C4, as stated: no output file is written before the solve/fit call of the
\* notebook has been made.
C4_NoFileBeforeSolve == files # {} => calls > 0

\* C4, amended: no result file (result.*, periodic_result.*) is written before
\* the final solve call has been made; the files written before any solve call
\* are the debug files of the build cells.
C4_ResultFilesAfterSolve ==
    /\ files \cap ResultNames # {} => outcome # "pending" /\ calls > 0
    /\ calls = 0 => files \subseteq DebugFiles(nb)

\* C4, witness: a notebook wrote its debug file, then solved, then wrote its
\* result file.
C4_Witness ==
    /\ nb = "nanowire"
    /\ {"canvas.pdb", "result.pdb", "periodic_result.pdb"} \subseteq files

\* the solve/fit calls of a notebook outside any loop
StraightLineCalls(n) ==
    CASE n = "bimetallic" -> 2
      [] n = "cstr" -> 3
      [] OTHER -> 1

\* C5, as stated: a run makes a number of solve/fit calls fixed in advance,
\* whatever the libraries return.
C5_FixedNumberOfCalls == pc = "done" => calls = StraightLineCalls(nb)

\* C5, amended: every notebook but the isothermal CSTR one makes a fixed number
\* of solve/fit calls; the isothermal CSTR notebook makes two more for each
\* iteration of its while loop, which runs as long as the returned err
\* violates the tolerance.
C5_CallsFixedButForLoop ==
    pc = "done" =>
        calls = StraightLineCalls(nb) + (IF nb = "cstr" THEN 2 * ite ELSE 0)

\* C5, witness: the isothermal CSTR notebook ended after its loop iterated.
C5_Witness ==
    /\ nb = "cstr"
    /\ pc = "done"
    /\ ite >= 1
    /\ calls > StraightLineCalls(nb)

\* C6, as stated: the adaptive loop of the isothermal CSTR notebook
\* terminates: after finitely many iterations the loop is left (the run
\* reaches the final ripe.ripemodel call, or a call raised).
C6_LoopTerminates == <>(nb = "cstr" => pc \in {"final", "done", "aborted"})

\* C6, amended: the loop is left only when no component of err exceeds
\* 2 * noise times the corresponding component of new_res, and the final
\* ripe.ripemodel call is then the next call; nothing bounds the number of
\* iterations, which is up to the errors ripe.ems returns.
C6_LeftOnlyWithinTolerance ==
    /\ nb = "cstr" /\ pc \in {"final", "done"} =>
          \A j \in Species : 10 * err[j] <= 2 * noiseTenths * new_res[j]
    /\ nb = "cstr" /\ pc = "final" => ENABLED FinalFit

\* C6, witness: the loop iterated and was left, the final call is next.
C6_Witness ==
    /\ nb = "cstr"
    /\ pc = "final"
    /\ ite >= 1

\* C7: in the result of the perovskite notebook the sites set to Atom("S") are
\* O-sites for which some Zic[i, c] > 0.5; no A-site or B-site is relabelled,
\* whatever the solver left in Zic.
C7_OnlyOSitesRelabelled ==
    nb = "perovskite" /\ pc = "done" /\ resultOut # <<>> =>
        \A i \in Sites :
            resultOut[1][i] = "S" =>
                /\ i \in OSites
                /\ \E c \in Confs : 2 * Zvals[<<i, c>>] > 1

\* the copies of site i in the periodic design that are shifted along the axis
ShiftedCopies(i) == {e \in periodicOut : e[1] = i /\ e[2] # 0}

\* C8: the design written to periodic_result.pdb is the optimal design plus
\* exactly four shifted copies of each of its sites.
C8_FourShiftedCopies ==
    nb = "nanowire" /\ pc = "done" /\ periodicOut # {} =>
        \A i \in NanoSites : Cardinality(ShiftedCopies(i)) = 4

\* C9: in a perovskite design that satisfies the four placement rules every
\* A-site holds Ba, every O-site holds O and every B-site holds exactly one
\* atom, Fe or In.
C9_OnlyBSitesFree ==
    nb = "perovskite" /\ pc = "post" /\ outcome = "design" =>
        /\ \A i \in ASites : D[1][i] = "Ba"
        /\ \A i \in OSites : D[1][i] = "O"
        /\ \A i \in BSites : D[1][i] \in {"Fe", "In"}

\* C9, witness: a design returned by the solver with both labellings of a
\* B-site in it.
C9_Witness ==
    /\ nb = "perovskite"
    /\ pc = "post"
    /\ outcome = "design"
    /\ \E i \in BSites : D[1][i] = "Fe"
    /\ \E i \in BSites : D[1][i] = "In"

\* C10: in the surface and nanowire notebooks every design that satisfies the
\* rules has its fixed sites (bottom two layers, core) occupied, and every
\* occupied site outside them has all its neighbours strictly below it
\* (strictly nearer the axis) occupied.
C10_NoHollowPocket ==
    /\ nb = "surface" /\ pc = "post" /\ outcome = "design" =>
          /\ \A i \in CanvTwoBotLayers : D[1][i] # NoneC
          /\ \A i \in SurfSites \ CanvTwoBotLayers :
                D[1][i] # NoneC =>
                    \A j \in SurfNeighborhoodIndexes(i) \ {0} :
                        SurfZ(j) < SurfZ(i) => D[1][j] # NoneC
    /\ nb = "nanowire" /\ pc = "post" /\ outcome = "design" =>
          /\ \A i \in CoreLayers : D[1][i] # NoneC
          /\ \A i \in NanoSites \ CoreLayers :
                D[1][i] # NoneC =>
                    \A j \in NanoNeighborhoodIndexes(i) \ {0} :
                        RadSq(j) < RadSq(i) => D[1][j] # NoneC

\* C10, witness: a surface design with an atom above the fixed layers and a
\* vacancy, and a nanowire design with an atom outside the core and a vacancy.
C10_Witness ==
    /\ pc = "post"
    /\ outcome = "design"
    /\ \/ /\ nb = "surface"
          /\ \E i \in SurfSites \ (CanvTwoBotLayers \cup OneSiteInTopLayer) :
                D[1][i] # NoneC
          /\ \E i \in SurfSites : D[1][i] = NoneC
       \/ /\ nb = "nanowire"
          /\ \E i \in NanoSites \ CoreLayers : D[1][i] # NoneC
          /\ \E i \in NanoSites : D[1][i] = NoneC

\* C11: in the surface-design and bifunctional notebooks the objective
\* ActAndStab equals CatWeight * Activity - (1 - CatWeight) * Stability: with
\* CatWeight = 1 it is Activity alone, with CatWeight = 0 it is minus Stability
\* alone.
C11_WeightedObjective ==
    nb \in WeightedNotebooks /\ objective # <<>> =>
        /\ objective.ActAndStab =
              CatWeight * objective.Activity
                  - (CatWeightOne - CatWeight) * objective.Stability
        /\ CatWeight = CatWeightOne =>
              objective.ActAndStab = CatWeightOne * objective.Activity
        /\ CatWeight = 0 =>
              objective.ActAndStab = -(CatWeightOne * objective.Stability)

\* C11, witness: the surface notebook solved with CatWeight = 1 and a solution
\* whose Stability and Activity are both not zero.
C11_Witness ==
    /\ nb = "surface"
    /\ pc = "post"
    /\ objective # <<>>
    /\ CatWeight = CatWeightOne
    /\ objective.Stability > 0
    /\ objective.Activity > 0

\* C12: in each iteration of the isothermal CSTR loop the printed violation
\* flags are True for exactly the components whose error makes the loop
\* condition hold (err > 2 * noise * new_res).
C12_FlagsAreLoopComponents ==
    nb = "cstr" /\ ite >= 1 => \A j \in Species : flags[j] = exceeds[j]

\* C13: in the result the nanowire notebook writes to result.pdb every site
\* the optimal design occupies is labelled with its identity, In on an A-site
\* and As on a B-site; the unoccupied sites stay empty and no site keeps the
\* placeholder Atom("").
C13_OccupiedSitesLabelled ==
    nb = "nanowire" /\ "result.pdb" \in files =>
        /\ resultOut # <<>>
        /\ \A i \in NanoSites :
              /\ returned[1][i] = NoneC => resultOut[1][i] = NoneC
              /\ returned[1][i] # NoneC /\ isASiteNano(i) => resultOut[1][i] = "In"
              /\ returned[1][i] # NoneC /\ isBSiteNano(i) => resultOut[1][i] = "As"
              /\ resultOut[1][i] # ""

\* C13, witness: a result with an In atom, an As atom and an empty site.
C13_Witness ==
    /\ nb = "nanowire"
    /\ "result.pdb" \in files
    /\ \E i \in NanoSites : returned[1][i] = "" /\ resultOut[1][i] = "In"
    /\ \E i \in NanoSites : returned[1][i] = "" /\ resultOut[1][i] = "As"
    /\ \E i \in NanoSites : resultOut[1][i] = NoneC

\* the notebook ran to its last cell and its solve/fit calls succeeded: the
\* final m.maximize returned a Design, every RIPE call returned
SolveSucceeded ==
    /\ pc = "done"
    /\ nb \in MatOptNotebooks => outcome = "design"

\* C14, as stated: every notebook writes at least one output file whenever
\* its solve/fit call succeeds.
C14_FileWhenSolved == SolveSucceeded => files # {}

\* C14, amended: every MatOpt notebook writes its result file(s) whenever its
\* final m.maximize call returns a Design; the RIPE notebooks (isothermal
\* CSTR, CLC) write no file at all, whether their fit calls succeed or not.
C14_ResultFileWhenDesign ==
    /\ SolveSucceeded /\ nb \in MatOptNotebooks =>
          /\ files \cap {"result.pdb", "result.cfg"} # {}
          /\ ResultFiles(nb) \subseteq files
    /\ nb \in RipeNotebooks => files = {}

\* C14, witness: a notebook that writes no debug file solved and wrote its
\* result file.
C14_Witness ==
    /\ nb = "bimetallic"
    /\ SolveSucceeded
    /\ files = {"result.pdb"}

\* the position of a step of the loading cell in the order enter, extract,
\* load, clean-up, use
StepRank(op) ==
    CASE op = "enter" -> 1
      [] op = "extract" -> 2
      [] op = "load" -> 3
      [] op = "exit" -> 4
      [] op = "confs" -> 5

\* C15: in the perovskite notebook the conformation files are extracted and
\* read only while the temporary directory exists, in the order extract, load,
\* clean-up; the directory is removed when the block is left, whether or not
\* extraction or loading raised; and the Confs the model is built from are the
\* contents of the designs loaded in memory, taken after the files are gone.
C15_ConfsLoadedInsideTempDir ==
    nb = "perovskite" =>
        /\ \A n \in DOMAIN confLog :
              /\ confLog[n].op \in {"extract", "load"} => confLog[n].dir = "open"
              /\ \A k \in 1..(n - 1) :
                    StepRank(confLog[k].op) < StepRank(confLog[n].op)
        /\ pc \in {"confs", "solve", "post", "done", "aborted"} =>
              ConfDir = "removed" /\ confFiles = {}
        /\ pc \in {"solve", "post", "done"} =>
              /\ ConfContents = [c \in Confs |-> PDBContents(c)]
              /\ confLog[Len(confLog)] = [op |-> "confs", dir |-> "removed", ok |-> TRUE]

\* C15, witness: the conformations were extracted and loaded, the directory
\* was removed and the model was built from the loaded contents.
C15_Witness ==
    /\ nb = "perovskite"
    /\ pc = "solve"
    /\ Len(confLog) = 5
    /\ ConfDir = "removed"
    /\ ConfContents # <<>>

====
